---- MODULE Spec2Model ----
(***************************************************************************)
(* Model of the BLS labor-market dashboard: the one-time dataset build     *)
(* (scripts/build_dataset.py), the incremental refresh                     *)
(* (scripts/fetch_bls_data.py) and the chart window of the Streamlit app   *)
(* (app.py).                                                               *)
(*                                                                         *)
(* The upstream BLS API and the clock are the environment.  The upstream   *)
(* holds a set of published items that only grows; every run receives an   *)
(* HTTP status and a response body built from the published items of the   *)
(* requested year range, in an arbitrary order.  A pandas DataFrame is a   *)
(* sequence of rows [series_id, date, value]; a date is [year, month] (the *)
(* day is always 1); the CSV file holds the rows it was written with.      *)
(***************************************************************************)
EXTENDS Integers, Sequences, FiniteSets

VARIABLES
    upstream,      \* items the upstream API has published so far
    exists,        \* DATA_PATH.exists()
    csv,           \* rows of data/bls_labor_data.csv (<<>> while absent)
    lastOp,        \* the last step taken: "init" | "publish" | "bootstrap" | "update"
    http,          \* HTTP status of the last run's response (0: no request)
    shape,         \* shape of the last run's response body ("none": no request)
    outcome,       \* how the last run ended
    requests,      \* requests.post calls issued by the last run
    selected_ids,  \* app: the multiselect's value
    months_back,   \* app: the slider's value
    df_plot,       \* app: rows handed to the charts
    appOutcome     \* app: how the last script run ended

vars == <<upstream, exists, csv, lastOp, http, shape, outcome, requests,
          selected_ids, months_back, df_plot, appOutcome>>

pipeVars == <<upstream, exists, csv, lastOp, http, shape, outcome, requests>>
appVars == <<selected_ids, months_back, df_plot, appOutcome>>

(***************************************************************************)
(* Bounds and program constants                                            *)
(***************************************************************************)
MaxItems == 3

START_YEAR == 2015
END_YEAR == 2025

SERIES_IDS == <<"CES0000000001", "LNS14000000", "LNS11300000", "JTS000000000000000JOL">>

SeriesSet == {SERIES_IDS[i] : i \in DOMAIN SERIES_IDS}

\* Position of a series id in Python's string order ("C" < "J" < "L", "LNS11" < "LNS14").
SidRank(s) ==
    CASE s = "CES0000000001" -> 1
      [] s = "JTS000000000000000JOL" -> 2
      [] s = "LNS11300000" -> 3
      [] s = "LNS14000000" -> 4

\* Period codes are strings, kept as sequences of characters.
M01 == <<"M", "0", "1">>
M12 == <<"M", "1", "2">>
M13 == <<"M", "1", "3">>
A01 == <<"A", "0", "1">>

\* The series the upstream has data for in this model.  Their request order
\* (SERIES_IDS) and their sort order (SidRank) disagree; the other two requested
\* series come back with an empty data list.
DataSeries == {"LNS14000000", "JTS000000000000000JOL"}

\* The series that, in this model, the upstream can publish one month of twice
\* (with two values) and whose annual codes it publishes.
RevisedSeries == {"LNS14000000"}

\* What the upstream can publish: two calendar months across a year boundary,
\* the annual average M13 and the annual code A01.
Universe ==
    {[sid |-> s, year |-> ym[1], period |-> ym[2], value |-> 1] :
        s \in DataSeries, ym \in {<<2024, M12>>, <<2025, M01>>}}
    \cup {[sid |-> s, year |-> ym[1], period |-> ym[2], value |-> 2] :
        s \in RevisedSeries, ym \in {<<2024, M12>>, <<2025, M01>>}}
    \cup {[sid |-> s, year |-> 2025, period |-> p, value |-> 1] :
        s \in RevisedSeries, p \in {M13, A01}}

CurrentYears == {2025, 2026}

HttpCodes == {200, 500}

Shapes == {"ok", "nodata", "failed", "noseries", "emptyseries"}

(***************************************************************************)
(* The upstream API's answer                                               *)
(***************************************************************************)
\* Items of the requested inclusive year range.
InRange(items, start_year, end_year) ==
    {it \in items : start_year <= it.year /\ it.year <= end_year}

RECURSIVE Orders(_)
\* Every order in which the items of S can appear.
Orders(S) ==
    IF S = {} THEN {<<>>}
    ELSE UNION {{<<x>> \o rest : rest \in Orders(S \ {x})} : x \in S}

RECURSIVE FirstSeen(_, _)
FirstSeen(ord, acc) ==
    IF ord = <<>> THEN acc
    ELSE LET s == Head(ord).sid IN
         FirstSeen(Tail(ord), IF \E i \in DOMAIN acc : acc[i] = s THEN acc ELSE Append(acc, s))

\* Series with data in order of appearance, then the other requested series.
SeriesOrder(ord) ==
    LET seen == FirstSeen(ord, <<>>) IN
    seen \o SelectSeq(SERIES_IDS, LAMBDA s : \A i \in DOMAIN seen : seen[i] # s)

DataOf(ord, s) ==
    LET mine == SelectSeq(ord, LAMBDA it : it.sid = s) IN
    [i \in DOMAIN mine |-> [year |-> mine[i].year, period |-> mine[i].period, value |-> mine[i].value]]

\* resp.json(): the body for a shape, its items in the order ord.
Body(sh, ord) ==
    LET so == SeriesOrder(ord) IN
    CASE sh = "ok" ->
            [status |-> "REQUEST_SUCCEEDED", hasSeries |-> TRUE,
             series |-> [i \in DOMAIN so |-> [seriesID |-> so[i], data |-> DataOf(ord, so[i])]]]
      [] sh = "nodata" ->
            [status |-> "REQUEST_SUCCEEDED", hasSeries |-> TRUE,
             series |-> [i \in DOMAIN SERIES_IDS |-> [seriesID |-> SERIES_IDS[i], data |-> <<>>]]]
      [] sh = "failed" ->
            [status |-> "REQUEST_NOT_PROCESSED", hasSeries |-> FALSE, series |-> <<>>]
      [] sh = "noseries" ->
            [status |-> "REQUEST_SUCCEEDED", hasSeries |-> FALSE, series |-> <<>>]
      [] sh = "emptyseries" ->
            [status |-> "REQUEST_SUCCEEDED", hasSeries |-> TRUE, series |-> <<>>]
      [] OTHER ->
            [status |-> "none", hasSeries |-> FALSE, series |-> <<>>]

(***************************************************************************)
(* Parsing, shared by fetch_series and fetch_latest                        *)
(***************************************************************************)
IsDigit(c) == c \in {"0", "1", "2", "3", "4", "5", "6", "7", "8", "9"}

DigitVal(c) ==
    CASE c = "0" -> 0 [] c = "1" -> 1 [] c = "2" -> 2 [] c = "3" -> 3 [] c = "4" -> 4
      [] c = "5" -> 5 [] c = "6" -> 6 [] c = "7" -> 7 [] c = "8" -> 8 [] c = "9" -> 9

RECURSIVE ToInt(_)
ToInt(str) == IF str = <<>> THEN 0 ELSE 10 * ToInt(SubSeq(str, 1, Len(str) - 1)) + DigitVal(str[Len(str)])

\* period.startswith("M")
StartsWithM(period) == Len(period) >= 1 /\ period[1] = "M"

\* pd.to_datetime accepts the string f"{year}-{month}-01" iff month is a month number.
ParsableDate(month) ==
    /\ Len(month) \in {1, 2}
    /\ \A i \in DOMAIN month : IsDigit(month[i])
    /\ ToInt(month) \in 1..12

RECURSIVE ParseData(_, _)
\* The inner loop: one row per item whose period starts with "M"; month = period[1:].
ParseData(sid, data) ==
    IF data = <<>> THEN <<>>
    ELSE LET item == Head(data) IN
         (IF ~StartsWithM(item.period) THEN <<>>
          ELSE <<[series_id |-> sid, year |-> item.year, month |-> Tail(item.period),
                  value |-> item.value]>>)
         \o ParseData(sid, Tail(data))

RECURSIVE ParseSeries(_)
\* The outer loop over series_list.
ParseSeries(series_list) ==
    IF series_list = <<>> THEN <<>>
    ELSE ParseData(Head(series_list).seriesID, Head(series_list).data)
         \o ParseSeries(Tail(series_list))

\* df = pd.DataFrame(rows); df["date"] = pd.to_datetime(df["date"])
ToFrame(rows) ==
    IF rows = <<>> THEN [raised |-> "KeyError", rows |-> <<>>]
    ELSE IF \E i \in DOMAIN rows : ~ParsableDate(rows[i].month)
    THEN [raised |-> "ValueError", rows |-> <<>>]
    ELSE [raised |-> "none",
          rows |-> [i \in DOMAIN rows |->
                      [series_id |-> rows[i].series_id,
                       date |-> [year |-> rows[i].year, month |-> ToInt(rows[i].month)],
                       value |-> rows[i].value]]]

\* resp.raise_for_status()
RaiseForStatus(code) == code >= 400 /\ code < 600

\* build_dataset.fetch_series
fetch_series(code, body) ==
    IF RaiseForStatus(code) THEN [raised |-> "HTTPError", rows |-> <<>>]
    ELSE IF ~body.hasSeries THEN [raised |-> "KeyError", rows |-> <<>>]
    ELSE ToFrame(ParseSeries(body.series))

\* fetch_bls_data.fetch_latest
fetch_latest(code, body) ==
    IF RaiseForStatus(code) THEN [raised |-> "HTTPError", rows |-> <<>>]
    ELSE IF body.status # "REQUEST_SUCCEEDED" THEN [raised |-> "none", rows |-> <<>>]
    ELSE IF ~body.hasSeries \/ body.series = <<>> THEN [raised |-> "none", rows |-> <<>>]
    ELSE ToFrame(ParseSeries(body.series))

(***************************************************************************)
(* DataFrame operations                                                    *)
(***************************************************************************)
DateLt(a, b) == a.year < b.year \/ (a.year = b.year /\ a.month < b.month)

\* Seeded fault: sort_values("date"), the series id left out of the key.
KeyLt_DateOnly(a, b) == DateLt(a.date, b.date)

\* Order of sort_values(["series_id", "date"]).
KeyLt(a, b) ==
    \/ SidRank(a.series_id) < SidRank(b.series_id)
    \/ (a.series_id = b.series_id /\ DateLt(a.date, b.date))

RECURSIVE InsertRow(_, _)
InsertRow(sorted, r) ==
    IF sorted = <<>> THEN <<r>>
    ELSE IF KeyLt(r, Head(sorted)) THEN <<r>> \o sorted
    ELSE <<Head(sorted)>> \o InsertRow(Tail(sorted), r)

RECURSIVE SortValues(_)
\* df.sort_values(["series_id", "date"]): rows with equal keys keep their order.
SortValues(rows) ==
    IF rows = <<>> THEN <<>>
    ELSE InsertRow(SortValues(SubSeq(rows, 1, Len(rows) - 1)), rows[Len(rows)])

\* Seeded fault: drop_duplicates() without subset, which compares whole rows.
DropDuplicates_AllColumns(rows) ==
    SelectSeq([i \in DOMAIN rows |-> [idx |-> i, row |-> rows[i]]],
              LAMBDA e : \A j \in 1..(e.idx - 1) : rows[j] # e.row)

\* df.drop_duplicates(subset=["series_id", "date"]): the first row of each key stays.
DropDuplicates(rows) ==
    SelectSeq([i \in DOMAIN rows |-> [idx |-> i, row |-> rows[i]]],
              LAMBDA e : \A j \in 1..(e.idx - 1) :
                  ~(rows[j].series_id = e.row.series_id /\ rows[j].date = e.row.date))

Unindex(entries) == [i \in DOMAIN entries |-> entries[i].row]

\* df_existing["date"].max()
MaxDate(rows) ==
    LET i == CHOOSE k \in DOMAIN rows : \A j \in DOMAIN rows : ~DateLt(rows[k].date, rows[j].date)
    IN rows[i].date

\* Seeded fault: >= in place of >.
KeepNew_Inclusive(rows, last_date) == SelectSeq(rows, LAMBDA r : ~DateLt(r.date, last_date))

\* df_new[df_new["date"] > last_date]
KeepNew(rows, last_date) == SelectSeq(rows, LAMBDA r : DateLt(last_date, r.date))

\* pd.concat([df_existing, df_new]).drop_duplicates(subset=[...]).sort_values([...])
Combine(existing, new) == SortValues(Unindex(DropDuplicates(existing \o new)))

(***************************************************************************)
(* The two scripts                                                         *)
(***************************************************************************)
\* Seeded fault: the file is opened for writing before the fetch.
BuildMain_WritesFirst(code, body, ex, rows) ==
    LET got == fetch_series(code, body) IN
    IF got.raised # "none"
    THEN [outcome |-> got.raised, exists |-> TRUE, csv |-> <<>>, requests |-> 1]
    ELSE [outcome |-> "written", exists |-> TRUE, csv |-> SortValues(got.rows), requests |-> 1]

\* build_dataset.main: the file as it is after the run, and how the run ended.
BuildMain(code, body, ex, rows) ==
    LET got == fetch_series(code, body) IN
    IF got.raised # "none"
    THEN [outcome |-> got.raised, exists |-> ex, csv |-> rows, requests |-> 1]
    ELSE [outcome |-> "written", exists |-> TRUE, csv |-> SortValues(got.rows), requests |-> 1]

\* Seeded fault: the baseline is looked for only after the fetch.
UpdateMain_FetchFirst(code, body, ex, rows) ==
    LET got == fetch_latest(code, body) IN
    IF ~ex
    THEN [outcome |-> "FileNotFoundError", exists |-> ex, csv |-> rows, requests |-> 1]
    ELSE LET df_new == KeepNew(got.rows, MaxDate(rows)) IN
         IF got.raised # "none"
         THEN [outcome |-> got.raised, exists |-> ex, csv |-> rows, requests |-> 1]
         ELSE IF df_new = <<>>
         THEN [outcome |-> "noop", exists |-> ex, csv |-> rows, requests |-> 1]
         ELSE [outcome |-> "merged", exists |-> TRUE, csv |-> Combine(rows, df_new),
               requests |-> 1]

\* fetch_bls_data.main
UpdateMain(code, body, ex, rows) ==
    IF ~ex
    THEN [outcome |-> "FileNotFoundError", exists |-> ex, csv |-> rows, requests |-> 0]
    ELSE LET last_date == MaxDate(rows)
             got == fetch_latest(code, body)
             df_new == KeepNew(got.rows, last_date)
         IN
         IF got.raised # "none"
         THEN [outcome |-> got.raised, exists |-> ex, csv |-> rows, requests |-> 1]
         ELSE IF df_new = <<>>
         THEN [outcome |-> "noop", exists |-> ex, csv |-> rows, requests |-> 1]
         ELSE [outcome |-> "merged", exists |-> TRUE, csv |-> Combine(rows, df_new),
               requests |-> 1]

\* What one request can come back with: an error status, or 200 and a body.
Responses ==
    {[code |-> c, shape |-> "none"] : c \in {c \in HttpCodes : c # 200}}
    \cup {[code |-> 200, shape |-> sh] : sh \in Shapes}

\* The bodies a response of this shape can carry for these items.
Bodies(resp, items) ==
    IF resp.shape = "ok" THEN {Body("ok", ord) : ord \in Orders(items)}
    ELSE {Body(resp.shape, <<>>)}

(***************************************************************************)
(* Actions                                                                 *)
(***************************************************************************)
appIdle ==
    /\ selected_ids = {}
    /\ months_back = 0
    /\ df_plot = <<>>
    /\ appOutcome = "none"

Init ==
    /\ upstream = {}
    /\ exists = FALSE
    /\ csv = <<>>
    /\ lastOp = "init"
    /\ http = 0
    /\ shape = "none"
    /\ outcome = "none"
    /\ requests = 0
    /\ appIdle

\* The upstream publishes one more item.
Publish ==
    /\ Cardinality(upstream) < MaxItems
    /\ \E it \in Universe \ upstream : upstream' = upstream \cup {it}
    /\ lastOp' = "publish"
    /\ http' = 0
    /\ shape' = "none"
    /\ outcome' = "none"
    /\ requests' = 0
    /\ UNCHANGED <<exists, csv>>
    /\ UNCHANGED appVars

\* python scripts/build_dataset.py
Bootstrap ==
    \E resp \in Responses :
    \E body \in Bodies(resp, InRange(upstream, START_YEAR, END_YEAR)) :
    \E res \in {BuildMain(resp.code, body, exists, csv)} :
        /\ exists' = res.exists
        /\ csv' = res.csv
        /\ outcome' = res.outcome
        /\ requests' = res.requests
        /\ http' = resp.code
        /\ shape' = resp.shape
        /\ lastOp' = "bootstrap"
        /\ UNCHANGED upstream
        /\ UNCHANGED appVars

\* python scripts/fetch_bls_data.py
IncrementalUpdate ==
    IF ~exists
    THEN \E res \in {UpdateMain(0, Body("none", <<>>), exists, csv)} :
         /\ exists' = res.exists
         /\ csv' = res.csv
         /\ outcome' = res.outcome
         /\ requests' = res.requests
         /\ http' = 0
         /\ shape' = "none"
         /\ lastOp' = "update"
         /\ UNCHANGED upstream
         /\ UNCHANGED appVars
    ELSE \E resp \in Responses :
         \E items \in {InRange(upstream, MaxDate(csv).year, current_year) :
                            current_year \in CurrentYears} :
         \E body \in Bodies(resp, items) :
         \E res \in {UpdateMain(resp.code, body, exists, csv)} :
            /\ exists' = res.exists
            /\ csv' = res.csv
            /\ outcome' = res.outcome
            /\ requests' = res.requests
            /\ http' = resp.code
            /\ shape' = resp.shape
            /\ lastOp' = "update"
            /\ UNCHANGED upstream
            /\ UNCHANGED appVars

Next == Publish \/ Bootstrap \/ IncrementalUpdate

Spec == Init /\ [][Next]_vars

(***************************************************************************)
(* The dashboard (app.py)                                                  *)
(***************************************************************************)
SERIES_META == SeriesSet

MonthsMin == 12
MonthsMax == 120

\* Slider positions tried.
MonthsChoices == {m \in {12, 13} : MonthsMin <= m /\ m <= MonthsMax}

\* date - pd.DateOffset(months=n), for a first-of-month date.
MinusMonths(d, n) ==
    LET total == (d.month - 1) - n IN
    [year |-> d.year + (total \div 12), month |-> (total % 12) + 1]

\* df[df["series_id"].isin(ids)]
IsIn(rows, ids) == SelectSeq(rows, LAMBDA r : r.series_id \in ids)

\* Seeded fault: > in place of >=, which drops the cutoff month.
FromCutoff_Strict(rows, cutoff) == SelectSeq(rows, LAMBDA r : DateLt(cutoff, r.date))

\* df_plot[df_plot["date"] >= cutoff]
FromCutoff(rows, cutoff) == SelectSeq(rows, LAMBDA r : ~DateLt(r.date, cutoff))

\* Lines 165-167 of app.main: the rows the charts are drawn from.
WindowedView(df, ids, months) ==
    LET picked == IsIn(df, ids) IN
    IF picked = <<>> THEN <<>>
    ELSE FromCutoff(picked, MinusMonths(MaxDate(picked), months))

\* app.main, one script run with the widgets at (ids, months).
AppResult(ex, rows, ids, months) ==
    IF ~ex
    THEN [outcome |-> "FileNotFoundError", ids |-> {}, months |-> 0, plot |-> <<>>]
    ELSE IF \E sid \in SERIES_META : \A i \in DOMAIN rows : rows[i].series_id # sid
    THEN [outcome |-> "KeyError", ids |-> {}, months |-> 0, plot |-> <<>>]
    ELSE IF ids = {}
    THEN [outcome |-> "info", ids |-> ids, months |-> months, plot |-> <<>>]
    ELSE [outcome |-> "charts", ids |-> ids, months |-> months,
          plot |-> WindowedView(rows, ids, months)]

\* The datasets handed to the dashboard in this model: every series can have the
\* latest month, and the two series selected by default can have two older months,
\* months_back or more before it.
HistorySeries == {"CES0000000001", "LNS14000000"}

LatestMonth == [year |-> 2025, month |-> 2]

OlderMonths == {[year |-> 2024, month |-> 1], [year |-> 2024, month |-> 2]}

ViewRows ==
    {[series_id |-> s, date |-> LatestMonth, value |-> 1] : s \in SeriesSet}
    \cup {[series_id |-> s, date |-> d, value |-> 1] : s \in HistorySeries, d \in OlderMonths}

RECURSIVE SortedRows(_)
\* The file build_dataset.py writes for a set of rows with distinct keys.
SortedRows(S) ==
    IF S = {} THEN <<>>
    ELSE LET m == CHOOSE r \in S : \A o \in S \ {r} : KeyLt(r, o) IN
         <<m>> \o SortedRows(S \ {m})

\* The dashboard started on any dataset file the scripts can have written.
InitView ==
    /\ upstream = {}
    /\ \/ exists = FALSE /\ csv = <<>>
       \/ exists = TRUE /\ csv \in {SortedRows(S) : S \in SUBSET ViewRows \ {{}}}
    /\ lastOp = "init"
    /\ http = 0
    /\ shape = "none"
    /\ outcome = "none"
    /\ requests = 0
    /\ appIdle

\* streamlit run app.py, or a rerun after a widget changed.
AppMain ==
    \E ids \in SUBSET SERIES_META :
    \E months \in MonthsChoices :
    \E res \in {AppResult(exists, csv, ids, months)} :
        /\ appOutcome' = res.outcome
        /\ selected_ids' = res.ids
        /\ months_back' = res.months
        /\ df_plot' = res.plot
        /\ UNCHANGED pipeVars

NextView == AppMain

SpecView == InitView /\ [][NextView]_vars

(***************************************************************************)
(* Vocabulary of the properties                                            *)
(***************************************************************************)
Runs == {"bootstrap", "update"}

Raised == {"HTTPError", "KeyError", "ValueError", "FileNotFoundError"}

Digits == <<"0", "1", "2", "3", "4", "5", "6", "7", "8", "9">>

\* The period code of calendar month m.
MonthCode(m) == <<"M", Digits[(m \div 10) + 1], Digits[(m % 10) + 1]>>

IsMonthly(it) == \E m \in 1..12 : it.period = MonthCode(m)

\* The observation a monthly item stands for.
RowOf(it) ==
    [series_id |-> it.sid,
     date |-> [year |-> it.year, month |-> CHOOSE m \in 1..12 : it.period = MonthCode(m)],
     value |-> it.value]

\* Months since year 0.
Idx(d) == d.year * 12 + d.month

KeyOf(r) == <<r.series_id, r.date>>

RowSet(rows) == {rows[i] : i \in DOMAIN rows}

KeySet(rows) == {KeyOf(rows[i]) : i \in DOMAIN rows}

LastIdx(rows) == CHOOSE n \in {Idx(rows[i].date) : i \in DOMAIN rows} :
                    \A i \in DOMAIN rows : Idx(rows[i].date) <= n

TypeOK ==
    /\ upstream \subseteq Universe
    /\ exists \in BOOLEAN
    /\ exists => csv # <<>>
    /\ lastOp \in {"init", "publish"} \cup Runs
    /\ outcome \in {"none", "written", "merged", "noop"} \cup Raised

(***************************************************************************)
(* C1  After an incremental update that completed, the dataset holds every *)
(* monthly observation the response carried, also for a series whose own   *)
(* latest persisted month is earlier than the dataset's last date.         *)
(* Stated for the series that already have rows in the dataset.            *)
(***************************************************************************)
C1_NoObservationMissing ==
    (lastOp = "update" /\ shape = "ok" /\ outcome \in {"noop", "merged"}) =>
        \A it \in upstream :
            (/\ IsMonthly(it)
             /\ it.year >= MaxDate(csv).year
             /\ \E i \in DOMAIN csv : csv[i].series_id = it.sid)
            => KeyOf(RowOf(it)) \in KeySet(csv)

(***************************************************************************)
(* C2  Parsing a response keeps exactly the items with period M01..M12,    *)
(* dated the first of their month, drops every other item (M13 too) and    *)
(* does not raise.  Stated for responses that carry at least one month.    *)
(***************************************************************************)
C2_ParseKeepsMonthsOnly ==
    (/\ lastOp \in Runs
     /\ http = 200
     /\ shape = "ok"
     /\ \E it \in upstream : IsMonthly(it))
    => /\ outcome \notin Raised
       /\ lastOp = "bootstrap" =>
            /\ RowSet(csv) = {RowOf(it) : it \in {x \in upstream : IsMonthly(x)}}
            /\ Len(csv) = Cardinality({x \in upstream : IsMonthly(x)})

(***************************************************************************)
(* C3  The dataset a merging incremental update writes has no two rows     *)
(* with the same (series_id, date).                                        *)
(***************************************************************************)
C3_NoDuplicateKeys ==
    (lastOp = "update" /\ outcome = "merged") =>
        \A i, j \in DOMAIN csv : i # j => KeyOf(csv[i]) # KeyOf(csv[j])

\* A merge whose fetched rows held one key twice: both items are months after
\* every older row of the file, and one of them is in the file.
C3_Witness ==
    /\ lastOp = "update"
    /\ outcome = "merged"
    /\ \E a, b \in upstream :
        /\ IsMonthly(a) /\ IsMonthly(b)
        /\ a.value # b.value
        /\ KeyOf(RowOf(a)) = KeyOf(RowOf(b))
        /\ Idx(RowOf(a).date) = LastIdx(csv)
        /\ \E i \in DOMAIN csv : Idx(csv[i].date) < LastIdx(csv)

(***************************************************************************)
(* C4  An incremental update whose response yields no record newer than    *)
(* the dataset's last date (a successful response with empty data lists    *)
(* included) completes as a no-op and leaves the file as it was.           *)
(***************************************************************************)
C4_NoNewRecordsIsNoop ==
    [][(/\ lastOp' = "update"
        /\ http' = 200
        /\ exists
        /\ \/ shape' \in {"nodata", "failed", "noseries", "emptyseries"}
           \/ /\ shape' = "ok"
              /\ \A it \in upstream : IsMonthly(it) => Idx(RowOf(it).date) <= LastIdx(csv))
       => (outcome' = "noop" /\ exists' = exists /\ csv' = csv)]_vars

(***************************************************************************)
(* C5  A body whose status is not the success sentinel, or whose series    *)
(* collection is missing or empty, makes the fetch step of either script   *)
(* return zero records without raising; the file is left as it was.        *)
(***************************************************************************)
C5_MalformedBodyIsSoft ==
    [][(/\ lastOp' \in Runs
        /\ http' = 200
        /\ shape' \in {"failed", "noseries", "emptyseries"})
       => (outcome' \notin Raised /\ exists' = exists /\ csv' = csv)]_vars

(***************************************************************************)
(* C6  A non-success HTTP status makes either script fail before any       *)
(* write: the file is what it was (absent stays absent, present stays      *)
(* unchanged).                                                             *)
(***************************************************************************)
C6_HttpErrorNoWrite ==
    [][(lastOp' \in Runs /\ http' >= 400)
       => (outcome' = "HTTPError" /\ exists' = exists /\ csv' = csv)]_vars

\* A bootstrap over an existing file answered with an error status.
C6_Witness ==
    /\ lastOp = "bootstrap"
    /\ http >= 400
    /\ outcome = "HTTPError"
    /\ exists

(***************************************************************************)
(* C7  An incremental update started without a baseline file fails with    *)
(* the missing-baseline error before any request is issued and creates no  *)
(* file.                                                                   *)
(***************************************************************************)
C7_MissingBaselineFailsFirst ==
    [][(lastOp' = "update" /\ ~exists)
       => (outcome' = "FileNotFoundError" /\ requests' = 0 /\ ~exists' /\ csv' = csv)]_vars

\* An update refused for want of a baseline although the upstream has months to give.
C7_Witness ==
    /\ lastOp = "update"
    /\ outcome = "FileNotFoundError"
    /\ ~exists
    /\ \E it \in upstream : IsMonthly(it)

(***************************************************************************)
(* C8  Every dataset file written, by the bootstrap or by a merging        *)
(* update, is sorted ascending by (series_id, date).                       *)
(***************************************************************************)
C8_WrittenSorted ==
    exists =>
        \A i, j \in DOMAIN csv :
            i < j =>
                \/ SidRank(csv[i].series_id) < SidRank(csv[j].series_id)
                \/ /\ csv[i].series_id = csv[j].series_id
                   /\ Idx(csv[i].date) <= Idx(csv[j].date)

\* A merged file holding both series, and one of them in two months.
C8_Witness ==
    /\ outcome = "merged"
    /\ Cardinality({csv[i].series_id : i \in DOMAIN csv}) = 2
    /\ \E i, j \in DOMAIN csv :
        csv[i].series_id = csv[j].series_id /\ csv[i].date # csv[j].date

(***************************************************************************)
(* C9  A merging update only appends: every row of the existing file is    *)
(* still there with its value, every row added is dated after the last     *)
(* date of the existing file, and no added row shares a key with an        *)
(* existing one.                                                           *)
(***************************************************************************)
C9_AppendOnly ==
    [][(lastOp' = "update" /\ outcome' = "merged")
       => /\ \A i \in DOMAIN csv : csv[i] \in RowSet(csv')
          /\ \A j \in DOMAIN csv' :
                csv'[j] \notin RowSet(csv) =>
                    /\ Idx(csv'[j].date) > LastIdx(csv)
                    /\ KeyOf(csv'[j]) \notin KeySet(csv)]_vars

\* C9 as amended: of the existing rows, the first row of each key is still
\* there with its value (a later existing row of a key already seen is dropped
\* by the deduplication); the rest as stated.
C9_AppendOnlyFirstOfKey ==
    [][(lastOp' = "update" /\ outcome' = "merged")
       => /\ \A i \in DOMAIN csv :
                (\A k \in 1..(i - 1) : KeyOf(csv[k]) # KeyOf(csv[i])) => csv[i] \in RowSet(csv')
          /\ KeySet(csv) \subseteq KeySet(csv')
          /\ \A j \in DOMAIN csv' :
                csv'[j] \notin RowSet(csv) =>
                    /\ Idx(csv'[j].date) > LastIdx(csv)
                    /\ KeyOf(csv'[j]) \notin KeySet(csv)]_vars

\* A merge on top of older rows, one of whose keys the upstream published twice.
C9_Witness ==
    /\ lastOp = "update"
    /\ outcome = "merged"
    /\ \E a, b \in upstream :
        /\ IsMonthly(a) /\ IsMonthly(b)
        /\ a.value # b.value
        /\ KeyOf(RowOf(a)) = KeyOf(RowOf(b))
        /\ Idx(RowOf(a).date) < LastIdx(csv)
        /\ KeyOf(RowOf(a)) \in KeySet(csv)

(***************************************************************************)
(* C10  The chart window holds exactly the rows of the selected series     *)
(* dated on or after the cutoff, the latest month among those rows minus   *)
(* months_back months; the cutoff month is in; no selection, no rows.      *)
(***************************************************************************)
C10_WindowExact ==
    /\ appOutcome = "charts" =>
        LET mine == {r \in RowSet(csv) : r.series_id \in selected_ids}
            want == {r \in mine : \A o \in mine : Idx(o.date) - Idx(r.date) <= months_back}
        IN /\ selected_ids # {}
           /\ RowSet(df_plot) = want
           /\ Len(df_plot) = Cardinality(want)
    /\ appOutcome = "info" => (selected_ids = {} /\ df_plot = <<>>)
    /\ selected_ids = {} => df_plot = <<>>

\* A window with a row exactly months_back months before the latest one, kept,
\* and an older row of a selected series, left out.
C10_Witness ==
    /\ appOutcome = "charts"
    /\ \E r \in RowSet(df_plot) : \E o \in RowSet(df_plot) :
            Idx(o.date) - Idx(r.date) = months_back
    /\ \E r \in RowSet(csv) : r.series_id \in selected_ids /\ r \notin RowSet(df_plot)

====
